---- MODULE Spec2Model ----
(***************************************************************************)
(* Model of src/app.py: the password strength scoring engine, the breach   *)
(* lookup (check_pwned) and the POST path of index().                      *)
(*                                                                         *)
(* A Python str is modelled as a sequence of Unicode code points, so       *)
(* "Abc" is <<65, 98, 99>>.  Floats are modelled in fixed point: entropy   *)
(* and the base score are counted in millionths (see Micro).               *)
(***************************************************************************)
EXTENDS Integers, Sequences, FiniteSets, TLC

(***************************************************************************)
(* Characters                                                              *)
(***************************************************************************)

\* Non-ASCII code points the model knows, with the classes Python's str
\* methods give them:
\*   223 (sharp s), 228 (a umlaut), 233 (e acute), 246 (o umlaut): lowercase
\*   201 (E acute), 8490 (Kelvin sign): uppercase
\*   1635 (Arabic-Indic digit three), 178 (superscript two): isdigit()
\*   20013 (CJK ideograph): isalnum() only
\*   8364 (euro sign), 9888 (warning sign): none of these, hence a symbol
NonAsciiLower == {223, 228, 233, 246}
NonAsciiUpper == {201, 8490}
NonAsciiDigit == {178, 1635}
NonAsciiOtherAlnum == {20013}

islower(c) == c \in 97..122 \/ c \in NonAsciiLower
isupper(c) == c \in 65..90 \/ c \in NonAsciiUpper
isdigit(c) == c \in 48..57 \/ c \in NonAsciiDigit
isalnum(c) == islower(c) \/ isupper(c) \/ isdigit(c) \/ c \in NonAsciiOtherAlnum

\* \d of the re module on a str pattern: the decimal digits (category Nd);
\* superscript two is isdigit() but not \d.
ReDigit(c) == c \in 48..57 \/ c = 1635

\* str.lower() of one character (each modelled character lowers to one
\* character).
LowerChar(c) ==
    IF c \in 65..90 THEN c + 32
    ELSE IF c = 201 THEN 233
    ELSE IF c = 8490 THEN 107
    ELSE c

lower(s) == [i \in 1..Len(s) |-> LowerChar(s[i])]

\* w in s, for strings: w is a contiguous substring of s.
Contains(s, w) ==
    \E i \in 1..(Len(s) - Len(w) + 1) : SubSeq(s, i, i + Len(w) - 1) = w

issymbol(c) == ~isalnum(c)
nonascii(c) == c > 127

(***************************************************************************)
(* Built-in lists                                                          *)
(***************************************************************************)

BUILTIN_COMMON ==
    {<<49, 50, 51, 52, 53, 54>>,                      \* 123456
     <<112, 97, 115, 115, 119, 111, 114, 100>>,       \* password
     <<49, 50, 51, 52, 53, 54, 55, 56>>,              \* 12345678
     <<113, 119, 101, 114, 116, 121>>,                \* qwerty
     <<97, 98, 99, 49, 50, 51>>,                      \* abc123
     <<109, 111, 110, 107, 101, 121>>,                \* monkey
     <<108, 101, 116, 109, 101, 105, 110>>,           \* letmein
     <<100, 114, 97, 103, 111, 110>>,                 \* dragon
     <<49, 49, 49, 49, 49, 49>>,                      \* 111111
     <<98, 97, 115, 101, 98, 97, 108, 108>>,          \* baseball
     <<105, 108, 111, 118, 101, 121, 111, 117>>,      \* iloveyou
     <<116, 114, 117, 115, 116, 110, 111, 49>>,       \* trustno1
     <<49, 50, 51, 52, 53, 54, 55>>,                  \* 1234567
     <<115, 117, 110, 115, 104, 105, 110, 101>>,      \* sunshine
     <<112, 114, 105, 110, 99, 101, 115, 115>>,       \* princess
     <<97, 100, 109, 105, 110>>,                      \* admin
     <<119, 101, 108, 99, 111, 109, 101>>,            \* welcome
     <<102, 111, 111, 116, 98, 97, 108, 108>>,        \* football
     <<113, 97, 122, 119, 115, 120>>,                 \* qazwsx
     <<112, 97, 115, 115, 119, 111, 114, 100, 49>>}   \* password1

\* The words of BUILTIN_DICT, in the order the source writes them.  Each
\* word carries its text (name) for the reason string and its characters.
BUILTIN_DICT ==
    <<[name |-> "password", chars |-> <<112, 97, 115, 115, 119, 111, 114, 100>>],
      [name |-> "admin", chars |-> <<97, 100, 109, 105, 110>>],
      [name |-> "user", chars |-> <<117, 115, 101, 114>>],
      [name |-> "login", chars |-> <<108, 111, 103, 105, 110>>],
      [name |-> "welcome", chars |-> <<119, 101, 108, 99, 111, 109, 101>>],
      [name |-> "love", chars |-> <<108, 111, 118, 101>>],
      [name |-> "secret", chars |-> <<115, 101, 99, 114, 101, 116>>],
      [name |-> "master", chars |-> <<109, 97, 115, 116, 101, 114>>],
      [name |-> "hello", chars |-> <<104, 101, 108, 108, 111>>],
      [name |-> "service", chars |-> <<115, 101, 114, 118, 105, 99, 101>>],
      [name |-> "system", chars |-> <<115, 121, 115, 116, 101, 109>>],
      [name |-> "pass", chars |-> <<112, 97, 115, 115>>],
      [name |-> "qwerty", chars |-> <<113, 119, 101, 114, 116, 121>>]>>

\* BUILTIN_DICT is a Python set of str: the order a for loop visits it in is
\* fixed within one process and differs between processes (hash
\* randomisation).  The orders the model lets a process have: the written
\* order and its reverse, so every two words occur in both relative orders.
Reverse(s) == [i \in 1..Len(s) |-> s[Len(s) + 1 - i]]
DictOrders == {BUILTIN_DICT, Reverse(BUILTIN_DICT)}

\* LEET_MAP = str.maketrans("430157@$!", "aeloistas"): the i-th character of
\* the first string is mapped to the i-th character of the second.
LeetFrom == <<52, 51, 48, 49, 53, 55, 64, 36, 33>>      \* 4 3 0 1 5 7 @ $ !
LeetTo == <<97, 101, 108, 111, 105, 115, 116, 97, 115>> \* a e l o i s t a s
LEET_MAP(c) ==
    IF \E i \in 1..Len(LeetFrom) : LeetFrom[i] = c
    THEN LeetTo[CHOOSE i \in 1..Len(LeetFrom) : LeetFrom[i] = c]
    ELSE c

translate(s) == [i \in 1..Len(s) |-> LEET_MAP(s[i])]

KEYBOARD_PATTERNS ==
    <<<<113, 119, 101, 114, 116, 121>>,               \* qwerty
      <<97, 115, 100, 102, 103, 104>>,                \* asdfgh
      <<122, 120, 99, 118, 98, 110>>,                 \* zxcvbn
      <<49, 113, 97, 122, 50, 119, 115, 120>>,        \* 1qaz2wsx
      <<113, 97, 122, 119, 115, 120>>,                \* qazwsx
      <<112, 97, 115, 115, 119, 111, 114, 100>>>>     \* password

\* The alternatives of the regular expression of detect_numeric_sequence.
NumericSequences ==
    {<<48, 49, 50, 51>>, <<49, 50, 51, 52>>, <<50, 51, 52, 53>>,
     <<51, 52, 53, 54>>, <<52, 53, 54, 55>>, <<53, 54, 55, 56>>,
     <<54, 55, 56, 57>>, <<57, 56, 55, 54>>, <<56, 55, 54, 53>>,
     <<55, 54, 53, 52>>}

(***************************************************************************)
(* Charset size and entropy                                                *)
(***************************************************************************)

\* any(c.islower() for c in pw) and the like.
has_lower(password) == \E i \in 1..Len(password) : islower(password[i])
has_upper(password) == \E i \in 1..Len(password) : isupper(password[i])
has_digit(password) == \E i \in 1..Len(password) : isdigit(password[i])
has_symbol(password) == \E i \in 1..Len(password) : issymbol(password[i])
has_nonascii(password) == \E i \in 1..Len(password) : nonascii(password[i])

estimate_charset_size(password) ==
    LET size == (IF has_lower(password) THEN 26 ELSE 0)
              + (IF has_upper(password) THEN 26 ELSE 0)
              + (IF has_digit(password) THEN 10 ELSE 0)
              + (IF has_symbol(password) THEN 32 ELSE 0)
              + (IF has_nonascii(password) THEN 500 ELSE 0)
    IN IF size > 1 THEN size ELSE 1

\* One unit of a modelled float: entropy and base score are integers that
\* count millionths.
Micro == 1000000

\* floor(math.log2(n) * Micro) for every n estimate_charset_size can return.
Log2Micro(n) ==
    CASE n = 1 -> 0
      [] n = 10 -> 3321928
      [] n = 26 -> 4700439
      [] n = 32 -> 5000000
      [] n = 36 -> 5169925
      [] n = 42 -> 5392317
      [] n = 52 -> 5700439
      [] n = 58 -> 5857980
      [] n = 62 -> 5954196
      [] n = 68 -> 6087462
      [] n = 84 -> 6392317
      [] n = 94 -> 6554588
      [] n = 500 -> 8965784
      [] n = 510 -> 8994353
      [] n = 526 -> 9038918
      [] n = 532 -> 9055282
      [] n = 536 -> 9066089
      [] n = 542 -> 9082149
      [] n = 552 -> 9108524
      [] n = 558 -> 9124121
      [] n = 562 -> 9134426
      [] n = 568 -> 9149747
      [] n = 584 -> 9189824
      [] n = 594 -> 9214319

\* Entropy in millionths of a bit.
entropy_bits(password) == Len(password) * Log2Micro(estimate_charset_size(password))

\* int(x) of a float given in millionths: truncation towards zero.
IntOf(x) == IF x >= 0 THEN x \div Micro ELSE -((-x) \div Micro)

\* round(x, 1) of a non-negative float given in millionths, in tenths.
Round1(x) == (x + 50000) \div 100000

(***************************************************************************)
(* difflib.SequenceMatcher(None, a, b).ratio()                             *)
(***************************************************************************)

\* The length of the longest common prefix of a[i..ahi] and b[j..bhi]
\* (1-based, inclusive bounds).
RECURSIVE CommonRun(_, _, _, _, _, _)
CommonRun(a, i, ahi, b, j, bhi) ==
    IF i > ahi \/ j > bhi \/ a[i] # b[j] THEN 0
    ELSE 1 + CommonRun(a, i + 1, ahi, b, j + 1, bhi)

\* find_longest_match: the longest block a[i..i+k-1] = b[j..j+k-1] inside
\* a[alo..ahi] and b[blo..bhi]; among the longest the one that starts
\* earliest in a, and among those the one that starts earliest in b.  No
\* character is junk (isjunk is None, and the popularity heuristic needs a
\* second sequence of 200 characters or more).
find_longest_match(a, alo, ahi, b, blo, bhi) ==
    LET cand == {<<i, j, CommonRun(a, i, ahi, b, j, bhi)>> :
                    i \in alo..ahi, j \in blo..bhi}
        best == CHOOSE m \in cand :
                    \A n \in cand :
                        \/ m[3] > n[3]
                        \/ m[3] = n[3] /\ m[1] < n[1]
                        \/ m[3] = n[3] /\ m[1] = n[1] /\ m[2] <= n[2]
    IN IF cand = {} THEN <<alo, blo, 0>> ELSE best

\* The total size of get_matching_blocks(): the longest block, then the same
\* to the left and to the right of it.
RECURSIVE MatchTotal(_, _, _, _, _, _)
MatchTotal(a, alo, ahi, b, blo, bhi) ==
    IF alo > ahi \/ blo > bhi THEN 0
    ELSE LET m == find_longest_match(a, alo, ahi, b, blo, bhi)
         IN IF m[3] = 0 THEN 0
            ELSE m[3] + MatchTotal(a, alo, m[1] - 1, b, blo, m[2] - 1)
                      + MatchTotal(a, m[1] + m[3], ahi, b, m[2] + m[3], bhi)

\* ratio() as the fraction <<2 * matches, len(a) + len(b)>>; 1.0 when both
\* are empty.
ratio(a, b) ==
    IF Len(a) + Len(b) = 0 THEN <<1, 1>>
    ELSE <<2 * MatchTotal(a, 1, Len(a), b, 1, Len(b)), Len(a) + Len(b)>>

\* num/den >= 0.78
AtLeastThreshold(r) == 100 * r[1] >= 78 * r[2]

(***************************************************************************)
(* Pattern detectors                                                       *)
(***************************************************************************)

\* The index at which a loop over a sequence returns, given the indices
\* whose element satisfies the condition of its return: the least, 0 when
\* the loop runs to its end.
FirstIndex(hits) ==
    IF hits = {} THEN 0 ELSE CHOOSE i \in hits : \A j \in hits : i <= j

\* contains_dictionary_word_fuzzy(pw, dictionary): dictionary is the set in
\* the order this process iterates it.  The result is (found, w, ratio),
\* the ratio a fraction.
contains_dictionary_word_fuzzy(password, dictionary) ==
    LET low == lower(password)
        leet_rev == translate(low)
        words == 1..Len(dictionary)
        i1 == FirstIndex({i \in words : Contains(low, dictionary[i].chars)})
        i2 == FirstIndex({i \in words : Contains(leet_rev, dictionary[i].chars)})
        i3 == FirstIndex({i \in words : AtLeastThreshold(ratio(low, dictionary[i].chars))})
    IN IF i1 # 0 THEN [found |-> TRUE, w |-> dictionary[i1].name, ratio |-> <<1, 1>>]
       ELSE IF i2 # 0 THEN [found |-> TRUE, w |-> dictionary[i2].name, ratio |-> <<95, 100>>]
       ELSE IF i3 # 0 THEN [found |-> TRUE, w |-> dictionary[i3].name,
                            ratio |-> ratio(low, dictionary[i3].chars)]
       ELSE [found |-> FALSE, w |-> "", ratio |-> <<0, 1>>]

\* re.search(r'(.)\1{3,}', pw): four equal characters in a row; "." matches
\* every character but the newline.
detect_repeat_patterns(password) ==
    \E i \in 1..(Len(password) - 3) :
        password[i] # 10 /\ password[i + 1] = password[i] /\ password[i + 2] = password[i] /\ password[i + 3] = password[i]

\* re.search(r'(\d)\1{2,}', pw): three equal digits in a row.
detect_repeated_numbers(password) ==
    \E i \in 1..(Len(password) - 2) :
        ReDigit(password[i]) /\ password[i + 1] = password[i] /\ password[i + 2] = password[i]

detect_numeric_sequence(password) == \E s \in NumericSequences : Contains(password, s)

detect_keyboard_pattern(password) ==
    LET low == lower(password)
    IN \E i \in 1..Len(KEYBOARD_PATTERNS) : Contains(low, KEYBOARD_PATTERNS[i])

\* Variant: membership without lower().
is_common_exact(password) == password \in BUILTIN_COMMON

\* pw.lower() in BUILTIN_COMMON
is_common(password) == lower(password) \in BUILTIN_COMMON

(***************************************************************************)
(* Scoring                                                                 *)
(***************************************************************************)

RECURSIVE SumPenalties(_)
SumPenalties(checks) ==
    IF checks = <<>> THEN 0
    ELSE (IF Head(checks).hit THEN Head(checks).penalty ELSE 0) + SumPenalties(Tail(checks))

RECURSIVE HitReasons(_)
HitReasons(checks) ==
    IF checks = <<>> THEN <<>>
    ELSE (IF Head(checks).hit THEN <<Head(checks).reason>> ELSE <<>>) \o HitReasons(Tail(checks))

\* The if statements of score_password_raw that add a penalty and a reason,
\* in the order the source runs them.
PenaltyChecks(password, dictionary) ==
    LET dict == contains_dictionary_word_fuzzy(password, dictionary)
    IN <<[hit |-> ~has_lower(password), penalty |-> 10, reason |-> "missing lowercase"],
         [hit |-> ~has_upper(password), penalty |-> 10, reason |-> "missing uppercase"],
         [hit |-> ~has_digit(password), penalty |-> 10, reason |-> "missing digit"],
         [hit |-> ~has_symbol(password), penalty |-> 10, reason |-> "missing special"],
         [hit |-> is_common(password), penalty |-> 70, reason |-> "common password"],
         [hit |-> dict.found, penalty |-> 25, reason |-> "dictionary word '" \o dict.w \o "'"],
         [hit |-> detect_repeat_patterns(password), penalty |-> 20, reason |-> "repeated pattern"],
         [hit |-> detect_repeated_numbers(password), penalty |-> 15, reason |-> "repeated numbers"],
         [hit |-> detect_numeric_sequence(password), penalty |-> 15, reason |-> "numeric sequence"],
         [hit |-> detect_keyboard_pattern(password), penalty |-> 18, reason |-> "keyboard pattern"],
         [hit |-> Len(password) < 6, penalty |-> 30, reason |-> "too short"]>>

\* Variant: no clamp.
ClampNone(lo, hi, x) == x

Clamp(lo, hi, x) == IF x < lo THEN lo ELSE IF x > hi THEN hi ELSE x

\* score_password_raw after its first line: entropy, bonuses and penalties.
ScoreNonEmpty(password, dictionary) ==
    LET bits == entropy_bits(password)
        \* min(ent/4*10, 60): ent/4*10 reaches 60 when ent reaches 24
        base_score == IF bits >= 24 * Micro THEN 60 * Micro ELSE (bits * 5) \div 2
        cats == (IF has_lower(password) THEN 1 ELSE 0)
              + (IF has_upper(password) THEN 1 ELSE 0)
              + (IF has_digit(password) THEN 1 ELSE 0)
              + (IF has_symbol(password) THEN 1 ELSE 0)
        length_bonus == IF Len(password) >= 16 THEN 12
                        ELSE IF Len(password) >= 12 THEN 8
                        ELSE IF Len(password) >= 8 THEN 4
                        ELSE 0
        checks == PenaltyChecks(password, dictionary)
        penalties == SumPenalties(checks)
        unclamped == base_score + ((cats * 5) + length_bonus - penalties) * Micro
    IN [raw |-> Clamp(0, 100, IntOf(unclamped)), reasons |-> HitReasons(checks), ent |-> bits]

\* Variant: the scoring without the guard for the empty password.
ScoreUnguarded(password, dictionary) == ScoreNonEmpty(password, dictionary)

\* score_password_raw(pw): (raw, reasons, ent), ent in millionths of a bit.
\* dictionary is BUILTIN_DICT in the order this process iterates it.
score_password_raw(password, dictionary) ==
    IF password = <<>> THEN [raw |-> 0, reasons |-> <<"empty password">>, ent |-> 0]
    ELSE ScoreNonEmpty(password, dictionary)

LABELS ==
    <<"Very Weak", "Weak", "Weak", "Fair", "Fair", "Good", "Good",
      "Strong", "Strong", "Excellent", "Excellent">>

\* Variant: a tie is rounded up.
RoundHalfUp(raw) == (raw + 5) \div 10

\* round(raw/10.0) for an int raw >= 0: to the nearest integer, a tie (raw
\* ending in 5) to the even neighbour.
RoundTenth(raw) ==
    LET q == raw \div 10
        r == raw % 10
    IN IF r < 5 THEN q
       ELSE IF r > 5 THEN q + 1
       ELSE IF q % 2 = 0 THEN q ELSE q + 1

\* map_to_10(raw): (val, label); the label list is indexed from 0.
map_to_10(raw) ==
    LET val == Clamp(0, 10, RoundTenth(raw))
    IN [val |-> val, label |-> LABELS[val + 1]]

(***************************************************************************)
(* hashlib.sha1(password.encode()).hexdigest().upper()                     *)
(*                                                                         *)
(* SHA-1 over the UTF-8 bytes.  A 32-bit word is a pair <<hi, lo>> of      *)
(* 16-bit halves.  A step's result is bound as the one element of a set    *)
(* before the next step runs, which keeps the evaluation iterative.        *)
(***************************************************************************)

RECURSIVE BitOp(_, _, _, _)
BitOp(op, a, b, n) ==
    IF n = 0 THEN 0
    ELSE LET x == a % 2
             y == b % 2
             z == IF op = "xor" THEN (x + y) % 2
                  ELSE IF op = "and" THEN x * y
                  ELSE IF x + y > 0 THEN 1 ELSE 0
         IN z + (2 * BitOp(op, a \div 2, b \div 2, n - 1))

Nibble == 0..15
XorTable == [a \in Nibble |-> [b \in Nibble |-> BitOp("xor", a, b, 4)]]
AndTable == [a \in Nibble |-> [b \in Nibble |-> BitOp("and", a, b, 4)]]
OrTable == [a \in Nibble |-> [b \in Nibble |-> BitOp("or", a, b, 4)]]

\* A bitwise operation on two 16-bit values, nibble by nibble.
Op16(T, a, b) ==
    T[a % 16][b % 16]
    + (16 * T[(a \div 16) % 16][(b \div 16) % 16])
    + (256 * T[(a \div 256) % 16][(b \div 256) % 16])
    + (4096 * T[a \div 4096][b \div 4096])

WXor(u, v) == <<Op16(XorTable, u[1], v[1]), Op16(XorTable, u[2], v[2])>>
WAnd(u, v) == <<Op16(AndTable, u[1], v[1]), Op16(AndTable, u[2], v[2])>>
WOr(u, v) == <<Op16(OrTable, u[1], v[1]), Op16(OrTable, u[2], v[2])>>
WNot(u) == <<65535 - u[1], 65535 - u[2]>>

\* Addition modulo 2^32.
WAdd(u, v) ==
    LET lo == u[2] + v[2]
    IN <<(u[1] + v[1] + (lo \div 65536)) % 65536, lo % 65536>>

\* Rotation to the left by n bits, 0 < n < 32.
WRotl(u, n) ==
    LET w == IF n >= 16 THEN <<u[2], u[1]>> ELSE u
        k == n % 16
    IN IF k = 0 THEN w
       ELSE <<((w[1] * (2 ^ k)) % 65536) + (w[2] \div (2 ^ (16 - k))),
              ((w[2] * (2 ^ k)) % 65536) + (w[1] \div (2 ^ (16 - k)))>>

\* str.encode(): the UTF-8 bytes of one code point.
Utf8(cp) ==
    IF cp < 128 THEN <<cp>>
    ELSE IF cp < 2048 THEN <<192 + (cp \div 64), 128 + (cp % 64)>>
    ELSE IF cp < 65536
         THEN <<224 + (cp \div 4096), 128 + ((cp \div 64) % 64), 128 + (cp % 64)>>
    ELSE <<240 + (cp \div 262144), 128 + ((cp \div 4096) % 64),
           128 + ((cp \div 64) % 64), 128 + (cp % 64)>>

RECURSIVE encode(_)
encode(s) == IF s = <<>> THEN <<>> ELSE Utf8(Head(s)) \o encode(Tail(s))

\* The message, the byte 0x80, zero bytes up to 56 modulo 64, and the bit
\* length as 8 big-endian bytes.
ShaPad(m) ==
    LET n == Len(m)
        bits == n * 8
    IN m \o <<128>> \o [i \in 1..((119 - (n % 64)) % 64) |-> 0]
         \o <<0, 0, 0, 0, bits \div 16777216, (bits \div 65536) % 256,
              (bits \div 256) % 256, bits % 256>>

\* The 16 words of block b (b = 0 is the first block) of the padded bytes p.
BlockWords(p, b) ==
    [t \in 1..16 |->
        <<(p[(64 * b) + (4 * (t - 1)) + 1] * 256) + p[(64 * b) + (4 * (t - 1)) + 2],
          (p[(64 * b) + (4 * (t - 1)) + 3] * 256) + p[(64 * b) + (4 * (t - 1)) + 4]>>]

\* The message schedule: n more words appended to W.
RECURSIVE Expand(_, _)
Expand(W, n) ==
    IF n = 0 THEN W
    ELSE IF n = 1
    THEN LET t == Len(W) + 1
         IN Append(W, WRotl(WXor(WXor(W[t - 3], W[t - 8]), WXor(W[t - 14], W[t - 16])), 1))
    ELSE CHOOSE r \in {Expand(m, n - (n \div 2)) : m \in {Expand(W, n \div 2)}} : TRUE

ShaF(t, b, c, d) ==
    IF t < 20 THEN WOr(WAnd(b, c), WAnd(WNot(b), d))
    ELSE IF t < 40 THEN WXor(WXor(b, c), d)
    ELSE IF t < 60 THEN WOr(WOr(WAnd(b, c), WAnd(b, d)), WAnd(c, d))
    ELSE WXor(WXor(b, c), d)

\* 0x5A827999, 0x6ED9EBA1, 0x8F1BBCDC, 0xCA62C1D6
ShaK(t) ==
    IF t < 20 THEN <<23170, 31129>>
    ELSE IF t < 40 THEN <<28377, 60321>>
    ELSE IF t < 60 THEN <<36635, 48348>>
    ELSE <<51810, 49622>>

ShaRound(t, W, s) ==
    LET tmp == WAdd(WAdd(WAdd(WAdd(WRotl(s[1], 5), ShaF(t, s[2], s[3], s[4])), s[5]), ShaK(t)),
                    W[t + 1])
    IN <<tmp, s[1], WRotl(s[2], 30), s[3], s[4]>>

\* Rounds t .. t+n-1 from the working state s.
RECURSIVE ShaRounds(_, _, _, _)
ShaRounds(t, n, W, s) ==
    IF n = 1 THEN ShaRound(t, W, s)
    ELSE CHOOSE r \in {ShaRounds(t + (n \div 2), n - (n \div 2), W, m) :
                          m \in {ShaRounds(t, n \div 2, W, s)}} : TRUE

\* 0x67452301, 0xEFCDAB89, 0x98BADCFE, 0x10325476, 0xC3D2E1F0
ShaH0 ==
    <<<<26437, 8961>>, <<61389, 43913>>, <<39098, 56574>>, <<4146, 21622>>, <<50130, 57840>>>>

RECURSIVE ShaBlocks(_, _, _)
ShaBlocks(p, b, h) ==
    IF 64 * b >= Len(p) THEN h
    ELSE CHOOSE r \in {ShaBlocks(p, b + 1, [i \in 1..5 |-> WAdd(h[i], s[i])]) :
                          s \in {ShaRounds(0, 80, W, h) :
                                    W \in {Expand(BlockWords(p, b), 64)}}} : TRUE

\* One hexadecimal digit of hexdigest(): lowercase.
HexDigit(n) == IF n < 10 THEN 48 + n ELSE 87 + n

WordHex(w) ==
    <<HexDigit(w[1] \div 4096), HexDigit((w[1] \div 256) % 16),
      HexDigit((w[1] \div 16) % 16), HexDigit(w[1] % 16),
      HexDigit(w[2] \div 4096), HexDigit((w[2] \div 256) % 16),
      HexDigit((w[2] \div 16) % 16), HexDigit(w[2] % 16)>>

hexdigest(bytes) ==
    LET h == ShaBlocks(ShaPad(bytes), 0, ShaH0)
    IN WordHex(h[1]) \o WordHex(h[2]) \o WordHex(h[3]) \o WordHex(h[4]) \o WordHex(h[5])

\* str.upper() of one character of a hex digest.
UpperChar(c) == IF c \in 97..122 THEN c - 32 ELSE c
upper(s) == [i \in 1..Len(s) |-> UpperChar(s[i])]

\* sha1 of check_pwned: 40 uppercase hexadecimal characters.
Sha1Upper(password) == upper(hexdigest(encode(password)))

(***************************************************************************)
(* check_pwned: the request and the scan of the response                   *)
(***************************************************************************)

BaseUrl == "https://api.pwnedpasswords.com/range/"

\* prefix, suffix = sha1[:5], sha1[5:]
PrefixOf(sha1) == SubSeq(sha1, 1, 5)
SuffixOf(sha1) == SubSeq(sha1, 6, Len(sha1))

\* Variant: the whole digest in the path.
RequestUrlFull(sha1) == [base |-> BaseUrl, path |-> sha1]

\* url = f"https://api.pwnedpasswords.com/range/{prefix}": what
\* requests.get sends.
RequestUrl(sha1) == [base |-> BaseUrl, path |-> PrefixOf(sha1)]

\* The characters str.splitlines() ends a line at: \n \v \f \r, the
\* separators 0x1c-0x1e, 0x85, and the line and paragraph separators.
LineBreaks == {10, 11, 12, 13, 28, 29, 30, 133, 8232, 8233}

IsLineBreak(c) == c \in LineBreaks
IsColon(c) == c = 58

\* str.splitlines() from index from on: the lines without their ends; \r\n
\* is one line end, and no empty line follows the last line end.
RECURSIVE LinesFrom(_, _)
LinesCut(text, from, e) ==
    IF e = 0 THEN <<SubSeq(text, from, Len(text))>>
    ELSE <<SubSeq(text, from, e - 1)>>
         \o LinesFrom(text, IF text[e] = 13 /\ e < Len(text) /\ text[e + 1] = 10
                            THEN e + 2 ELSE e + 1)
LinesFrom(text, from) ==
    IF from > Len(text) THEN <<>>
    ELSE LinesCut(text, from, FirstIndex({i \in from..Len(text) : IsLineBreak(text[i])}))

splitlines(text) == LinesFrom(text, 1)

\* line.split(":") from index from on: the fields between the colons.
RECURSIVE FieldsFrom(_, _)
FieldsCut(line, from, e) ==
    IF e = 0 THEN <<SubSeq(line, from, Len(line))>>
    ELSE <<SubSeq(line, from, e - 1)>> \o FieldsFrom(line, e + 1)
FieldsFrom(line, from) == FieldsCut(line, from, FirstIndex({i \in from..Len(line) : IsColon(line[i])}))

split(line) == FieldsFrom(line, 1)

\* The white space int() strips, and the value of a decimal digit.
IsSpace(c) == c \in {9, 10, 11, 12, 13, 32}
IsDecimal(c) == c \in 48..57 \/ c \in 1632..1641
DecimalValue(c) == IF c \in 48..57 THEN c - 48 ELSE c - 1632

RECURSIVE DigitsValue(_)
DigitsValue(d) ==
    IF d = <<>> THEN 0 ELSE (10 * DigitsValue(SubSeq(d, 1, Len(d) - 1))) + DecimalValue(d[Len(d)])

\* int() of a string without white space around it: an optional sign, then
\* decimal digits; anything else raises ValueError (ok is FALSE).
\* Underscores between digits, which int() also accepts, are not modelled.
IntOfDigits(sign, digits) ==
    IF digits = <<>> \/ \E i \in 1..Len(digits) : ~IsDecimal(digits[i])
    THEN [ok |-> FALSE, value |-> 0]
    ELSE [ok |-> TRUE, value |-> sign * DigitsValue(digits)]

IntOfBody(body) ==
    IF body # <<>> /\ body[1] \in {43, 45}
    THEN IntOfDigits(IF body[1] = 45 THEN -1 ELSE 1, Tail(body))
    ELSE IntOfDigits(1, body)

\* int(c): the white space at both ends is stripped first.
ParseInt(c) ==
    LET inner == {i \in 1..Len(c) : ~IsSpace(c[i])}
    IN IF inner = {} THEN [ok |-> FALSE, value |-> 0]
       ELSE IntOfBody(SubSeq(c, CHOOSE i \in inner : \A j \in inner : i <= j,
                                CHOOSE i \in inner : \A j \in inner : i >= j))

\* The for loop of check_pwned over the lines from line k on: the first
\* line that does not split in two raises, the first line whose first field
\* is the suffix returns int(c) or raises, and the end of the lines returns
\* 0.  ok is FALSE when an exception leaves check_pwned.
RECURSIVE ScanLines(_, _, _)
ScanLines(lines, k, suffix) ==
    IF k > Len(lines) THEN [ok |-> TRUE, count |-> 0]
    ELSE LET f == split(lines[k])
         IN IF Len(f) # 2 THEN [ok |-> FALSE, count |-> 0]
            ELSE IF f[1] = suffix
                 THEN LET c == ParseInt(f[2])
                      IN [ok |-> c.ok, count |-> c.value]
            ELSE ScanLines(lines, k + 1, suffix)

\* check_pwned from resp on: the count returned for the response text.
PwnedCount(text, sha1) == ScanLines(splitlines(text), 1, SuffixOf(sha1))

(***************************************************************************)
(* tips                                                                    *)
(***************************************************************************)

\* A breach value is None or an int.
None == [known |-> FALSE, count |-> 0]
Known(n) == [known |-> TRUE, count |-> n]

TipLength == "Use at least 12 characters."
TipBreach(n) == "Found in " \o ToString(n) \o " breaches. Never reuse it."
TipCase == "Mix uppercase and lowercase letters."
TipDigit == "Add numbers."
TipSpecial == "Add special characters (!,@,#,$, etc.)"
TipPassphrase == "Consider a passphrase or password manager."
TipMfa == "Enable MFA for important accounts."

InList(x, list) == \E i \in 1..Len(list) : list[i] = x

When(cond, tip) == IF cond THEN <<tip>> ELSE <<>>

\* Variant: the passphrase tip up to and including raw 50.
tipsOffByOne(password, reasons, raw, breach) ==
    When(Len(password) < 12, TipLength)
    \o When(breach.known /\ breach.count # 0 /\ breach.count > 0, TipBreach(breach.count))
    \o When(InList("missing uppercase", reasons) \/ InList("missing lowercase", reasons), TipCase)
    \o When(InList("missing digit", reasons), TipDigit)
    \o When(InList("missing special", reasons), TipSpecial)
    \o When(raw <= 50, TipPassphrase)
    \o <<TipMfa>>

\* tips(pw, reasons, raw, breach).  "breach and breach>0" is false for None
\* and for 0.  The breach tip's text starts with a warning sign, left out
\* here.
tips(password, reasons, raw, breach) ==
    When(Len(password) < 12, TipLength)
    \o When(breach.known /\ breach.count # 0 /\ breach.count > 0, TipBreach(breach.count))
    \o When(InList("missing uppercase", reasons) \/ InList("missing lowercase", reasons), TipCase)
    \o When(InList("missing digit", reasons), TipDigit)
    \o When(InList("missing special", reasons), TipSpecial)
    \o When(raw < 50, TipPassphrase)
    \o <<TipMfa>>

(***************************************************************************)
(* index(): the steps after score_password_raw                             *)
(***************************************************************************)

\* What the try block made of check_pwned: out.ok is FALSE when it raised
\* (requests.get, the split of a line or int() of a count), else out.count
\* is the int it returned.
Raised == [ok |-> FALSE, count |-> 0]

\* breach=None; breach=check_pwned(pw)
BreachValue(out) == IF out.ok THEN Known(out.count) ELSE None

\* Variant: no override.
NoOverride(raw, out) == raw

\* if breach>0: raw=0
BreachOverride(raw, out) == IF out.ok /\ out.count > 0 THEN 0 ELSE raw

\* Variant: a failed lookup leaves no reason.
BreachReasonsSilent(reasons, out) ==
    IF out.ok /\ out.count > 0 THEN Append(reasons, "found in breaches") ELSE reasons

\* if breach>0: reasons.append("found in breaches")
\* except: reasons.append("leak-check failed")
BreachReasons(reasons, out) ==
    IF ~out.ok THEN Append(reasons, "leak-check failed")
    ELSE IF out.count > 0 THEN Append(reasons, "found in breaches")
    ELSE reasons

\* The result dict built from pw, the (raw, reasons, ent) of
\* score_password_raw and the outcome of the breach lookup; entropy is
\* round(ent, 1) in tenths of a bit.
Render(password, sc, out) ==
    LET finalRaw == BreachOverride(sc.raw, out)
        finalReasons == BreachReasons(sc.reasons, out)
        m == map_to_10(finalRaw)
    IN [pw |-> password, score |-> m.val, label |-> m.label, reasons |-> finalReasons,
        entropy |-> Round1(sc.ent), breach |-> BreachValue(out),
        tips |-> tips(password, finalReasons, finalRaw, BreachValue(out))]

\* result=None
ResultNone == [none |-> TRUE]

(***************************************************************************)
(* Inputs                                                                  *)
(***************************************************************************)

\* The longest password built from Alphabet, and the most lines of a
\* response body.
MaxLen == 2
MaxLines == 2

\* a A 1 !
Alphabet == {97, 65, 49, 33}

RECURSIVE StringsUpTo(_)
StringsUpTo(n) ==
    IF n = 0 THEN {<<>>}
    ELSE LET shorter == StringsUpTo(n - 1)
         IN shorter \cup {Append(t, c) : t \in {u \in shorter : Len(u) = n - 1}, c \in Alphabet}

Corpus ==
    {<<>>,
     <<80, 64, 115, 115, 119, 48, 114, 100, 49, 50, 51, 33>>,     \* P@ssw0rd123!
     <<49, 50, 51, 52, 53, 54>>,                                  \* 123456
     <<84, 114, 117, 115, 116, 78, 111, 49>>,                     \* TrustNo1
     <<65, 98, 99, 49, 50, 51>>,                                  \* Abc123
     <<97, 100, 109, 105, 110, 117, 115, 101, 114>>,              \* adminuser
     <<112, 97, 115, 115, 119, 111, 114, 100>>,                   \* password
     <<80, 97, 115, 115, 119, 111, 114, 100, 49>>,                \* Password1
     <<113, 119, 101, 114, 116, 121>>,                            \* qwerty
     <<116, 114>>,                                                \* tr
     <<99, 102, 112>>,                                            \* cfp
     <<104, 101, 108, 111>>,                                      \* helo
     <<117, 55, 101, 114>>,                                       \* u7er
     <<36, 100, 109, 105, 110>>,                                  \* $dmin
     <<112, 52, 115, 115>>,                                       \* p4ss
     <<97, 97, 97, 97>>,                                          \* aaaa
     <<49, 49, 49>>,                                              \* 111
     <<49, 50, 51, 52>>,                                          \* 1234
     <<97, 115, 100, 102, 103, 104>>,                             \* asdfgh
     <<120, 75, 35, 57, 109, 81, 50, 36, 118, 76, 55, 64, 110, 82, 52, 33>>,
                                                                  \* xK#9mQ2$vL7@nR4!
     <<84, 114, 48, 117, 98, 52, 100, 111, 114, 38, 51>>,         \* Tr0ub4dor&3
     <<99, 111, 114, 114, 101, 99, 116, 32, 104, 111, 114, 115, 101, 32,
       98, 97, 116, 116, 101, 114, 121, 32, 115, 116, 97, 112, 108, 101>>,
                                                                  \* correct horse battery staple
     <<233, 20013, 8364>>,                                        \* e acute, CJK, euro
     <<117, 115, 101, 114, 108, 111, 103, 105, 110>>,             \* userlogin
     <<122, 113, 56, 35, 76, 119>>,                               \* zq8#Lw
     <<90, 101, 98, 114, 97, 45, 52, 50>>,                        \* Zebra-42
     <<109, 111, 110, 8490, 101, 121>>}                           \* mon(Kelvin)ey

\* The passwords a form may post.
Passwords == Corpus \cup StringsUpTo(MaxLen)

\* The lines a response body is made of, for a request whose digest has
\* this suffix: the record of the suffix with count 3, the same with count
\* 0, the record of another suffix, a record whose count is no number, a
\* line without a colon, and an empty line.
OtherSuffix == [i \in 1..35 |-> 48]
ResponseLines(suffix) ==
    {suffix \o <<58, 51>>,
     suffix \o <<58, 48>>,
     OtherSuffix \o <<58, 53>>,
     suffix \o <<58, 120>>,
     <<111, 111, 112, 115>>,
     <<>>}

\* The bodies of n lines, the lines joined by \r\n.
RECURSIVE BodiesOf(_, _)
BodiesOf(n, suffix) ==
    IF n = 0 THEN {<<>>}
    ELSE IF n = 1 THEN ResponseLines(suffix)
    ELSE {b \o <<13, 10>> \o l : b \in BodiesOf(n - 1, suffix), l \in ResponseLines(suffix)}

ResponseTexts(suffix) == UNION {BodiesOf(n, suffix) : n \in 0..MaxLines}

(***************************************************************************)
(* State                                                                   *)
(***************************************************************************)

VARIABLES
    pc,         \* where the worker is: "idle", "waiting" (inside
                \* requests.get), "rendered"; "call"/"return" for one function
    dictOrder,  \* the iteration order of BUILTIN_DICT in this process
    pw,         \* index: pw
    raw,        \* index: raw
    reasons,    \* index: reasons
    ent,        \* index: ent, in millionths of a bit
    sha1,       \* check_pwned: sha1
    url,        \* check_pwned: url, the request sent
    resp,       \* what came back: the response text, or a transport error
    oracle,     \* "none", "returned" (check_pwned returned), "raised"
    breach,     \* index: breach
    result,     \* index: result
    ret         \* the value a function called on its own returned

vars == <<pc, dictOrder, pw, raw, reasons, ent, sha1, url, resp, oracle, breach, result, ret>>

NoRequest == [base |-> "", path |-> <<>>]
NoResponse == [status |-> "none", text |-> <<>>]

\* The worker between two requests: no local of index() is alive.
Idle ==
    /\ pc = "idle"
    /\ pw = <<>> /\ raw = 0 /\ reasons = <<>> /\ ent = 0
    /\ sha1 = <<>> /\ url = NoRequest /\ resp = NoResponse /\ oracle = "none"
    /\ breach = None /\ result = ResultNone /\ ret = <<>>

Init == dictOrder \in DictOrders /\ Idle

\* A GET request: result stays None and the template is rendered.
Get ==
    /\ pc = "idle"
    /\ pc' = "rendered"
    /\ UNCHANGED <<dictOrder, pw, raw, reasons, ent, sha1, url, resp, oracle, breach, result, ret>>

\* A POST request with the form field password = p, up to the call of
\* requests.get in check_pwned.
Post(p) ==
    /\ pc = "idle"
    /\ LET sc == score_password_raw(p, dictOrder)
           digest == Sha1Upper(p)
       IN /\ pw' = p
          /\ raw' = sc.raw
          /\ reasons' = sc.reasons
          /\ ent' = sc.ent
          /\ sha1' = digest
          /\ url' = RequestUrl(digest)
    /\ pc' = "waiting"
    /\ UNCHANGED <<dictOrder, resp, oracle, breach, result, ret>>

\* The rest of index() once the try block has the outcome out.
Finish(out) ==
    /\ oracle' = IF out.ok THEN "returned" ELSE "raised"
    /\ breach' = BreachValue(out)
    /\ raw' = BreachOverride(raw, out)
    /\ reasons' = BreachReasons(reasons, out)
    /\ result' = Render(pw, [raw |-> raw, reasons |-> reasons, ent |-> ent], out)
    /\ pc' = "rendered"
    /\ UNCHANGED <<dictOrder, pw, ent, sha1, url, ret>>

\* requests.get returns a response with this text.
Respond(text) ==
    /\ pc = "waiting"
    /\ resp' = [status |-> "ok", text |-> text]
    /\ Finish(PwnedCount(text, sha1))

\* requests.get raises: a timeout or a transport error.
Fail ==
    /\ pc = "waiting"
    /\ resp' = [status |-> "error", text |-> <<>>]
    /\ Finish(Raised)

\* The response is sent and the locals of index() are gone.
Done ==
    /\ pc = "rendered"
    /\ pc' = "idle"
    /\ pw' = <<>> /\ raw' = 0 /\ reasons' = <<>> /\ ent' = 0
    /\ sha1' = <<>> /\ url' = NoRequest /\ resp' = NoResponse /\ oracle' = "none"
    /\ breach' = None /\ result' = ResultNone
    /\ UNCHANGED <<dictOrder, ret>>

Next ==
    \/ Get
    \/ \E p \in Passwords : Post(p)
    \/ \E text \in ResponseTexts(SuffixOf(sha1)) : Respond(text)
    \/ Fail
    \/ Done

Spec == Init /\ [][Next]_vars

(***************************************************************************)
(* The pure functions called on their own                                  *)
(***************************************************************************)

\* Every local of index() blank but those a specification draws.
Blank ==
    /\ sha1 = <<>> /\ url = NoRequest /\ resp = NoResponse /\ oracle = "none"
    /\ result = ResultNone /\ ret = <<>>

\* The characters whose lower() is c.
CaseForms(c) == {c} \cup {u \in (65..90) \cup NonAsciiUpper : LowerChar(u) = c}

\* The strings whose lower() is w.
RECURSIVE CaseVariants(_)
CaseVariants(w) ==
    IF w = <<>> THEN {<<>>}
    ELSE {<<c>> \o t : c \in CaseForms(Head(w)), t \in CaseVariants(Tail(w))}

\* score_password_raw on every spelling of a common password, and on the
\* corpus.
ScoreInputs == UNION {CaseVariants(w) : w \in BUILTIN_COMMON} \cup Corpus

InitScore ==
    /\ dictOrder \in DictOrders
    /\ pc = "call"
    /\ pw \in ScoreInputs
    /\ raw = 0 /\ reasons = <<>> /\ ent = 0 /\ breach = None
    /\ Blank

ScoreCall ==
    /\ pc = "call"
    /\ ret' = score_password_raw(pw, dictOrder)
    /\ pc' = "return"
    /\ UNCHANGED <<dictOrder, pw, raw, reasons, ent, sha1, url, resp, oracle, breach, result>>

SpecScore == InitScore /\ [][ScoreCall]_vars

\* map_to_10 on every raw score.
InitMap ==
    /\ dictOrder = BUILTIN_DICT
    /\ pc = "call"
    /\ raw \in 0..100
    /\ pw = <<>> /\ reasons = <<>> /\ ent = 0 /\ breach = None
    /\ Blank

MapCall ==
    /\ pc = "call"
    /\ ret' = map_to_10(raw)
    /\ pc' = "return"
    /\ UNCHANGED <<dictOrder, pw, raw, reasons, ent, sha1, url, resp, oracle, breach, result>>

SpecMap == InitMap /\ [][MapCall]_vars

\* tips on passwords around the length 12, every sublist of the reasons it
\* reads (and two it does not read), raw scores around 50 and at the ends,
\* and every breach value up to MaxBreach.
MaxBreach == 2

TipReasons ==
    <<"missing lowercase", "missing uppercase", "missing digit", "missing special",
      "too short", "found in breaches">>

RECURSIVE Sublists(_)
Sublists(list) ==
    IF list = <<>> THEN {<<>>}
    ELSE LET rest == Sublists(Tail(list))
         IN rest \cup {<<Head(list)>> \o t : t \in rest}

TipPasswords == {[i \in 1..n |-> 97] : n \in {0, 11, 12, 13}}
TipRaws == {0, 1, 49, 50, 51, 92, 100}

InitTips ==
    /\ dictOrder = BUILTIN_DICT
    /\ pc = "call"
    /\ pw \in TipPasswords
    /\ reasons \in Sublists(TipReasons)
    /\ raw \in TipRaws
    /\ breach \in {None} \cup {Known(n) : n \in 0..MaxBreach}
    /\ ent = 0
    /\ Blank

TipsCall ==
    /\ pc = "call"
    /\ ret' = tips(pw, reasons, raw, breach)
    /\ pc' = "return"
    /\ UNCHANGED <<dictOrder, pw, raw, reasons, ent, sha1, url, resp, oracle, breach, result>>

SpecTips == InitTips /\ [][TipsCall]_vars

(***************************************************************************)
(* Properties                                                              *)
(***************************************************************************)

\* index() has rendered the result of a POST.
Evaluated == pc = "rendered" /\ oracle # "none"

\* What score_password_raw returns for every password of the model under
\* every iteration order of BUILTIN_DICT.
ScoreOf == [d \in DictOrders |-> [p \in Passwords |-> score_password_raw(p, d)]]

\* What score_password_raw returns for the password of this request.
Scored == ScoreOf[dictOrder][pw]

\* The outcome of the breach lookup of this request.
Outcome == [ok |-> oracle = "returned", count |-> breach.count]

\* The digest of every password of the model.
DigestOf == [p \in Passwords |-> Sha1Upper(p)]

PAssw0rd123 == <<80, 64, 115, 115, 119, 48, 114, 100, 49, 50, 51, 33>>   \* P@ssw0rd123!
TrustNo1 == <<84, 114, 117, 115, 116, 78, 111, 49>>                      \* TrustNo1

\* C1: for every password and every outcome of the breach lookup, the raw
\* score score_password_raw returned and the raw score after the breach
\* override are integers in 0..100, and the score of the result is an
\* integer in 0..10 whose label is the entry of the 11 labels at that index.
C1_ScoresInRange ==
    /\ Len(LABELS) = 11
    /\ pc \in {"waiting", "rendered"} => raw \in 0..100
    /\ pc = "waiting" => Scored.raw \in 0..100
    /\ Evaluated =>
        /\ BreachOverride(Scored.raw, Outcome) = raw
        /\ result.score \in 0..10
        /\ result.label = LABELS[result.score + 1]

\* C1 happens: a password that scores 88 or more before the override is
\* rendered after a failed lookup, and so keeps a score of 9.
C1_Witness ==
    /\ Evaluated /\ oracle = "raised" /\ pw # <<>>
    /\ raw >= 88 /\ result.score = 9

\* C2: when check_pwned returns a count above 0, the result has score 0 and
\* label "Very Weak", and its reasons are those of score_password_raw
\* followed by "found in breaches", whatever the raw score was.
C2_BreachedIsVeryWeak ==
    (Evaluated /\ oracle = "returned" /\ breach.known /\ breach.count > 0) =>
        /\ result.score = 0
        /\ result.label = "Very Weak"
        /\ result.reasons = Append(Scored.reasons, "found in breaches")
        /\ result.breach = breach

\* C2 happens: a password score_password_raw gives 92 is found in 3 breaches.
C2_Witness ==
    /\ Evaluated /\ oracle = "returned" /\ breach = Known(3)
    /\ Scored.raw = 92 /\ Scored.reasons = <<>>
    /\ result.score = 0

\* C3: when the lookup fails (requests.get raises, a line does not split in
\* two, a count is no number), the result is complete: breach is None, the
\* raw score is the one score_password_raw returned and the score and the
\* tips are made from it, the reasons contain "leak-check failed" and not
\* "found in breaches", and the tips contain the MFA tip.
C3_FailedLookup ==
    (Evaluated /\ oracle = "raised") =>
        /\ DOMAIN result = {"pw", "score", "label", "reasons", "entropy", "breach", "tips"}
        /\ breach = None /\ result.breach = None
        /\ raw = Scored.raw
        /\ result.score = map_to_10(Scored.raw).val
        /\ result.label = map_to_10(Scored.raw).label
        /\ InList("leak-check failed", result.reasons)
        /\ ~InList("found in breaches", result.reasons)
        /\ InList(TipMfa, result.tips)
        /\ InList(TipPassphrase, result.tips) <=> Scored.raw < 50
        /\ ~\E i \in 1..Len(result.tips) : result.tips[i] = TipBreach(3)

\* C3 happens: the response holds the record of the password with count 3
\* after a line without a colon, and the password keeps its score of 9.
C3_Witness ==
    /\ Evaluated /\ oracle = "raised" /\ resp.status = "ok"
    /\ resp.text = <<111, 111, 112, 115, 13, 10>> \o SuffixOf(sha1) \o <<58, 51>>
    /\ result.score = 9

\* C4, as the claim states it: for the empty password the result has score
\* 0, label "Very Weak", entropy 0 and the one reason "empty password",
\* whatever the breach lookup does.
C4_OnlyEmptyPasswordReason ==
    (Evaluated /\ pw = <<>>) =>
        /\ result.score = 0
        /\ result.label = "Very Weak"
        /\ result.entropy = 0
        /\ result.reasons = <<"empty password">>

\* C4, amended: for the empty password the result has score 0, label "Very
\* Weak" and entropy 0; "empty password" is its first reason and the only
\* one score_password_raw gives; the breach lookup adds "found in breaches"
\* when it returns a count above 0, "leak-check failed" when it fails, and
\* nothing when it returns 0.
C4_EmptyPassword ==
    (Evaluated /\ pw = <<>>) =>
        /\ result.score = 0
        /\ result.label = "Very Weak"
        /\ result.entropy = 0
        /\ Scored.reasons = <<"empty password">>
        /\ result.reasons =
              IF oracle = "raised" THEN <<"empty password", "leak-check failed">>
              ELSE IF breach.count > 0 THEN <<"empty password", "found in breaches">>
              ELSE <<"empty password">>

\* C4 happens: the empty password is posted and the lookup fails.
C4_Witness ==
    /\ Evaluated /\ pw = <<>> /\ oracle = "raised"
    /\ result.reasons = <<"empty password", "leak-check failed">>

\* C5, as the claim states it: the reasons for "P@ssw0rd123!" include the
\* dictionary word 'password' and include neither "numeric sequence" nor
\* "repeated numbers".
C5_LeetPasswordFound ==
    (Evaluated /\ pw = PAssw0rd123) =>
        /\ InList("dictionary word 'password'", result.reasons)
        /\ ~InList("numeric sequence", result.reasons)
        /\ ~InList("repeated numbers", result.reasons)

\* C6: for every password whose lower() is in BUILTIN_COMMON,
\* score_password_raw counts the penalty 70 with the reason "common
\* password" and returns the raw score 0.
C6_CommonPasswordIsZero ==
    (pc = "return" /\ lower(pw) \in BUILTIN_COMMON) =>
        /\ InList("common password", ret.reasons)
        /\ \E i \in 1..Len(PenaltyChecks(pw, dictOrder)) :
              PenaltyChecks(pw, dictOrder)[i] =
                  [hit |-> TRUE, penalty |-> 70, reason |-> "common password"]
        /\ ret.raw = 0

\* C6 happens: "TrustNo1", whose bonuses add up to 79, is scored.
C6_Witness ==
    /\ pc = "return" /\ pw = TrustNo1
    /\ ret.reasons = <<"missing special", "common password">>
    /\ ret.raw = 0

\* C7, as the claim states it: the result for a password and an outcome of
\* the lookup is the same under every order in which BUILTIN_DICT can be
\* iterated.
C7_SameResultInEveryOrder ==
    Evaluated => \A d \in DictOrders : Render(pw, ScoreOf[d][pw], Outcome) = result

\* C8: the request is the base URL followed by the first 5 characters of
\* the 40 of the uppercase SHA-1 digest and nothing else, so passwords whose
\* digests share these 5 characters send the same request; a count that
\* check_pwned returns is that of the first record whose first field is the
\* other 35 characters, and 0 when there is no such record.
C8_PrefixOnly ==
    pc \in {"waiting", "rendered"} /\ url # NoRequest =>
        /\ sha1 = DigestOf[pw] /\ Len(sha1) = 40
        /\ url = [base |-> BaseUrl, path |-> SubSeq(sha1, 1, 5)]
        /\ \A q \in Passwords :
              SubSeq(DigestOf[q], 1, 5) = SubSeq(sha1, 1, 5) => RequestUrl(DigestOf[q]) = url
        /\ (pc = "rendered" /\ oracle = "returned") =>
              LET lines == splitlines(resp.text)
                  records == {k \in 1..Len(lines) :
                                 /\ Len(split(lines[k])) = 2
                                 /\ split(lines[k])[1] = SubSeq(sha1, 6, 40)}
              IN /\ breach.known
                 /\ records = {} => breach.count = 0
                 /\ records # {} =>
                       LET k == CHOOSE i \in records : \A j \in records : i <= j
                       IN breach.count = ParseInt(split(lines[k])[2]).value

\* C8 happens: the password shares the first 5 characters of its digest
\* with another password whose digest differs after them, and the response
\* holds its record with count 3 after the record of another suffix.
C8_Witness ==
    /\ pc = "rendered" /\ oracle = "returned" /\ breach = Known(3)
    /\ Len(splitlines(resp.text)) = 2
    /\ \E q \in Passwords :
          /\ q # pw
          /\ SubSeq(DigestOf[q], 1, 5) = SubSeq(sha1, 1, 5)
          /\ DigestOf[q] # sha1

\* The place of a tip in the fixed order, 0 for a string that is no tip of
\* this call.
TipPlace(t, b) ==
    IF t = TipLength THEN 1
    ELSE IF b.known /\ t = TipBreach(b.count) THEN 2
    ELSE IF t = TipCase THEN 3
    ELSE IF t = TipDigit THEN 4
    ELSE IF t = TipSpecial THEN 5
    ELSE IF t = TipPassphrase THEN 6
    ELSE IF t = TipMfa THEN 7
    ELSE 0

\* C9: the tips are a subsequence of the fixed order (length, breach, case,
\* digit, special, passphrase, MFA), hold no tip twice and end with the MFA
\* tip; the breach tip is there exactly when breach is a count above 0, and
\* the passphrase tip exactly when raw is below 50.
C9_TipsInFixedOrder ==
    pc = "return" =>
        /\ \A i \in 1..Len(ret) : TipPlace(ret[i], breach) # 0
        /\ \A i \in 1..(Len(ret) - 1) : TipPlace(ret[i], breach) < TipPlace(ret[i + 1], breach)
        /\ Len(ret) >= 1 /\ ret[Len(ret)] = TipMfa
        /\ (\E i \in 1..Len(ret) : TipPlace(ret[i], breach) = 2)
              <=> (breach.known /\ breach.count > 0)
        /\ InList(TipPassphrase, ret) <=> raw < 50

\* C9 happens: at raw 49 and a breach count of 2 all seven tips are returned.
C9_Witness ==
    /\ pc = "return" /\ raw = 49 /\ breach = Known(2)
    /\ Len(ret) = 7 /\ ret[2] = TipBreach(2) /\ ret[6] = TipPassphrase

\* The label of a score by its band.
BandLabel(v) ==
    IF v = 0 THEN "Very Weak"
    ELSE IF v <= 2 THEN "Weak"
    ELSE IF v <= 4 THEN "Fair"
    ELSE IF v <= 6 THEN "Good"
    ELSE IF v <= 8 THEN "Strong"
    ELSE "Excellent"

\* C10: map_to_10 does not decrease as raw grows over 0..100; a raw score
\* ending in 5 goes to the even neighbour (5, 25, 45, 65, 85 to 0, 2, 4, 6,
\* 8 and 15, 35, 55, 75, 95 to 2, 4, 6, 8, 10); the label is that of the
\* band of the score.
C10_HalfToEven ==
    pc = "return" =>
        /\ \A r \in 0..raw : map_to_10(r).val <= ret.val
        /\ ret.val \in 0..10
        /\ raw \in {5, 25, 45, 65, 85} => ret.val = (raw - 5) \div 10
        /\ raw \in {15, 35, 55, 75, 95} => ret.val = (raw + 5) \div 10
        /\ raw % 10 < 5 => ret.val = raw \div 10
        /\ raw % 10 > 5 => ret.val = (raw \div 10) + 1
        /\ ret.label = BandLabel(ret.val)
        /\ raw = 5 => ret.label = "Very Weak"
        /\ raw = 25 => ret.label = "Weak"

\* C10 happens: raw 25 is mapped to 2, "Weak".
C10_Witness == pc = "return" /\ raw = 25 /\ ret = [val |-> 2, label |-> "Weak"]

====
